---- MODULE Spec2Model ----
(***************************************************************************)
(* NoteVault: the storage layer (SqliteStorage), the SQLite schema and     *)
(* seeding (server/database.ts), the REST routes (server/routes.ts), and   *)
(* the browser page (Notepad, Sidebar, NotesPanel, Editor).                *)
(*                                                                         *)
(* Text values (titles, contents, tags, search strings) are sequences of   *)
(* one-character strings, so that LIKE matching and JSON encoding are      *)
(* computed character by character.  Instants are integers in              *)
(* milliseconds (JavaScript Date); the database keeps integer epoch        *)
(* seconds.  Identifiers (randomUUID) are drawn from counters: a fresh id  *)
(* is one never handed out before.                                         *)
(***************************************************************************)
EXTENDS Integers, Sequences, FiniteSets, TLC

\* ------------------------------------------------------------------ bounds
MaxNotes == 2          \* notes ever created
MaxUserCats == 1       \* categories ever created through POST /api/categories
MaxSeedRuns == 2       \* start-ups that find the categories table empty
MaxTicks == 2          \* clock advances
TickMs == 500          \* milliseconds per clock advance

\* ----------------------------------------------------------- program data
MsPerSecond == 1000              \* integer columns in mode "timestamp" keep seconds
DefaultColor == "#3b82f6"

VARIABLES
    categories,   \* table categories: a set of rows
    notes,        \* table notes: a set of rows
    now,          \* the wall clock, in milliseconds
    nextCatId,    \* next fresh category id
    nextNoteId,   \* next fresh note id
    seedRuns,     \* how many start-ups seeded the defaults
    req,          \* per request slot: the pending storage call suspended at an await
    last,         \* the request answered by the latest step: input and response
    isMobile,               \* Notepad: useIsMobile()
    sidebarOpen,            \* Notepad: useState(false)
    selectedCategoryId,     \* Notepad: useState(null)
    selectedNoteId,         \* Notepad: useState(null)
    searchQuery,            \* Notepad: useState("")
    categoriesQuery,        \* the cached answer of the query ["/api/categories"]
    notesQuery,             \* the cached answers of the queries ["/api/notes", categoryId]
    deleteCategoryMutation, \* Sidebar: answered deletes whose onSuccess has not run yet
    createNoteMutation,     \* Editor: answered creates whose onSuccess has not run yet
    title,                  \* Editor: useState("")
    timer                   \* Editor: whether the auto-save timeout is pending

\* The state of the browser page.
client == <<isMobile, sidebarOpen, selectedCategoryId, selectedNoteId, searchQuery,
            categoriesQuery, notesQuery, deleteCategoryMutation, createNoteMutation,
            title, timer>>

vars == <<categories, notes, now, nextCatId, nextNoteId, seedRuns, req, last, client>>

\* ------------------------------------------------------------------- text
\* String.prototype.toLowerCase, and the ASCII case folding of SQLite's LIKE.
Lower(c) == CASE c = "A" -> "a" [] c = "B" -> "b" [] OTHER -> c

toLowerCase(s) == [i \in 1..Len(s) |-> Lower(s[i])]

\* SQLite's  text LIKE pattern : % stands for any run of characters, _ for any one
\* character, every other character for itself up to ASCII case.
RECURSIVE LikeMatch(_, _)
LikeMatch(pat, txt) ==
    IF pat = <<>> THEN txt = <<>>
    ELSE IF Head(pat) = "%"
         THEN LikeMatch(Tail(pat), txt) \/ (txt # <<>> /\ LikeMatch(pat, Tail(txt)))
         ELSE /\ txt # <<>>
              /\ (Head(pat) = "_" \/ Lower(Head(pat)) = Lower(Head(txt)))
              /\ LikeMatch(Tail(pat), Tail(txt))

\* like(column, `%${searchLower}%`)
like(column, searchLower) == LikeMatch(<<"%">> \o searchLower \o <<"%">>, column)

\* A string written between quotes as it is, nothing escaped.
JsonEscapeNone(s) == s

\* JSON.stringify of one string: quotes around it, " and \ escaped by a backslash.
RECURSIVE JsonEscape(_)
JsonEscape(s) ==
    IF s = <<>> THEN <<>>
    ELSE (IF Head(s) \in {"\"", "\\"} THEN <<"\\", Head(s)>> ELSE <<Head(s)>>)
         \o JsonEscape(Tail(s))

RECURSIVE JsonItems(_)
JsonItems(tags) ==
    IF tags = <<>> THEN <<>>
    ELSE <<"\"">> \o JsonEscape(Head(tags)) \o <<"\"">>
         \o (IF Tail(tags) = <<>> THEN <<>> ELSE <<",">> \o JsonItems(Tail(tags)))

\* JSON.stringify(tags) for an array of strings.
JsonStringify(tags) == <<"[">> \o JsonItems(tags) \o <<"]">>

\* JSON.parse of the text of an array of strings: a scan that is outside a string,
\* inside one, or just after a backslash inside one.
RECURSIVE JsonScan(_, _, _, _, _)
JsonScan(s, i, mode, cur, acc) ==
    IF i > Len(s) THEN acc
    ELSE LET c == s[i] IN
         CASE mode = "out" ->
                IF c = "\"" THEN JsonScan(s, i + 1, "in", <<>>, acc)
                ELSE JsonScan(s, i + 1, "out", cur, acc)
           [] mode = "in" ->
                IF c = "\\" THEN JsonScan(s, i + 1, "esc", cur, acc)
                ELSE IF c = "\"" THEN JsonScan(s, i + 1, "out", <<>>, Append(acc, cur))
                ELSE JsonScan(s, i + 1, "in", Append(cur, c), acc)
           [] OTHER -> JsonScan(s, i + 1, "in", Append(cur, c), acc)

JsonParse(s) == JsonScan(s, 1, "out", <<>>, <<>>)

\* --------------------------------------------------------------- instants
\* drizzle's integer(..., { mode: "timestamp" }): a Date is written as whole epoch
\* seconds and read back as the Date of that second.
ToDriver(ms) == ms \div MsPerSecond

\* A read that takes the stored seconds for milliseconds.
FromDriverRaw(sec) == sec

FromDriver(sec) == sec * MsPerSecond

\* ------------------------------------------------------------ row mapping
NoBody == [none |-> TRUE]         \* undefined / an empty response body

Idle == [op |-> "idle"]

\* { ...a, ...b } restricted to a's keys (the patch carries no other key).
Spread(a, b) == [f \in DOMAIN a |-> IF f \in DOMAIN b THEN b[f] ELSE a[f]]

\* An object parse that lets every key through.
StripNot(body, keys) == body

\* zod's object parse drops the keys the schema does not name.
Strip(body, keys) == [f \in DOMAIN body \cap keys |-> body[f]]

CategoryOfRow(r) ==
    [id |-> r.id, name |-> r.name, color |-> r.color, createdAt |-> FromDriver(r.createdAt)]

RowOfCategory(c) ==
    [id |-> c.id, name |-> c.name, color |-> c.color, createdAt |-> ToDriver(c.createdAt)]

\* A selected notes row as drizzle hands it over: tags still the stored text.
SelectedNote(r) ==
    [id |-> r.id, title |-> r.title, content |-> r.content, categoryId |-> r.categoryId,
     tags |-> r.tags, createdAt |-> FromDriver(r.createdAt),
     updatedAt |-> FromDriver(r.updatedAt)]

\* tags: typeof note.tags === 'string' ? JSON.parse(note.tags) : note.tags
NoteOfRow(r) == [SelectedNote(r) EXCEPT !.tags = JsonParse(r.tags)]

CatIds == {r.id : r \in categories}

NoteIds == {r.id : r \in notes}

CatRow(id) == CHOOSE r \in categories : r.id = id

NoteRow(id) == CHOOSE r \in notes : r.id = id

\* ------------------------------------------------------------------ reads
\* ORDER BY key: ascending by key; rows with equal keys in rowid (insertion) order,
\* which is the order of the ids as the counters hand them out.
RECURSIVE OrderBy(_, _)
OrderBy(rows, key) ==
    IF rows = {} THEN <<>>
    ELSE LET first == CHOOSE r \in rows :
                        \A q \in rows : r[key] < q[key] \/ (r[key] = q[key] /\ r.id <= q.id)
         IN <<first>> \o OrderBy(rows \ {first}, key)

\* The rows left in the order of the query.
ReverseNot(s) == s

Reverse(s) == [i \in 1..Len(s) |-> s[Len(s) + 1 - i]]

\* The categories with the one created last in front.
getCategoriesNewestFirst ==
    LET rows == Reverse(OrderBy(categories, "createdAt"))
    IN [i \in 1..Len(rows) |-> CategoryOfRow(rows[i])]

getCategories ==
    LET rows == OrderBy(categories, "createdAt")
    IN [i \in 1..Len(rows) |-> CategoryOfRow(rows[i])]

getCategory(id) == IF id \in CatIds THEN CategoryOfRow(CatRow(id)) ELSE NoBody

\* getNotes(categoryId?, search?): q carries the arguments that are given.
NoteMatches(r, q) ==
    /\ ("categoryId" \in DOMAIN q) => r.categoryId = q.categoryId
    /\ ("search" \in DOMAIN q /\ q.search # <<>>) =>
          LET searchLower == toLowerCase(q.search) IN
          \/ like(r.title, searchLower)
          \/ like(r.content, searchLower)
          \/ like(r.tags, searchLower)

getNotes(q) ==
    LET result == OrderBy({r \in notes : NoteMatches(r, q)}, "updatedAt")
    IN Reverse([i \in 1..Len(result) |-> NoteOfRow(result[i])])

getNote(id) == IF id \in NoteIds THEN NoteOfRow(NoteRow(id)) ELSE NoBody

\* getCategoryNoteCounts: one pass over the notes rows, counting per categoryId.
RECURSIVE CountInto(_, _)
CountInto(rows, counts) ==
    IF rows = {} THEN counts
    ELSE LET r == CHOOSE x \in rows : TRUE
             c == r.categoryId
             n == IF c \in DOMAIN counts THEN counts[c] ELSE 0
         IN CountInto(rows \ {r},
                      [k \in DOMAIN counts \cup {c} |-> IF k = c THEN n + 1 ELSE counts[k]])

\* A count that records that a category has notes, and not how many.
getCategoryNoteCountsFlag == [c \in {n.categoryId : n \in notes} |-> 1]

getCategoryNoteCounts == CountInto(notes, <<>>)

\* GET /api/categories: each category with noteCount = counts[category.id] || 0.
CategoriesRoute ==
    LET counts == getCategoryNoteCounts
        WithCount(c) ==
            [id |-> c.id, name |-> c.name, color |-> c.color, createdAt |-> c.createdAt,
             noteCount |-> IF c.id \in DOMAIN counts THEN counts[c.id] ELSE 0]
        cats == getCategories
    IN [i \in 1..Len(cats) |-> WithCount(cats[i])]

\* GET /api/notes?categoryId=&search=
NotesRoute(q) == getNotes(q)


\* ---------------------------------------------------------------- seeding
\* A seed list that lost its last entry.
DefaultCategoriesShort ==
    << [name |-> "Work Notes", color |-> "#3b82f6"],
       [name |-> "Personal", color |-> "#10b981"],
       [name |-> "Ideas", color |-> "#ef4444"] >>

DefaultCategories ==
    << [name |-> "Work Notes", color |-> "#3b82f6"],
       [name |-> "Personal", color |-> "#10b981"],
       [name |-> "Ideas", color |-> "#ef4444"],
       [name |-> "Prompts", color |-> "#8b5cf6"] >>

\* The rows seedDatabase inserts: fresh ids, createdAt: new Date().
SeedRows(firstId, t) ==
    { RowOfCategory([id |-> firstId + i - 1, name |-> DefaultCategories[i].name,
                     color |-> DefaultCategories[i].color, createdAt |-> t])
      : i \in 1..Len(DefaultCategories) }

\* Seeding without looking at the table.
SeedAlways == TRUE

\* if (existingCategories.length === 0) insert the defaults
SeedNeeded == categories = {}

\* ------------------------------------------------------------- the engine
\* foreign_keys left OFF: any category_id is written.
ForeignKeyOff(categoryId) == TRUE

\* notes.category_id REFERENCES categories(id), with foreign_keys = ON: a notes row
\* is written only if its category_id is the id of a categories row.
ForeignKeyOk(categoryId) == categoryId \in CatIds

\* ON DELETE CASCADE: deleting a categories row deletes the notes rows that name it.
OnDeleteCascade(rows, id) == {n \in rows : n.categoryId # id}

\* ----------------------------------------------------------- the storage
CategoryKeys == {"name", "color"}

NoteKeys == {"title", "content", "categoryId", "tags"}

\* The zod schemas: the keys an object may carry and those it must carry.  A request
\* body is the record of the fields it gives; its field wrongType, if it has one, names
\* the fields whose JSON value is not of the type the schema asks for.
insertCategorySchema == [keys |-> CategoryKeys, required |-> {"name"}]

insertNoteSchema == [keys |-> NoteKeys, required |-> {"title", "categoryId"}]

\* A schema whose update form asks for every field a new entity needs.
partialNot(schema) == schema

\* schema.partial(): every key optional.
partial(schema) == [schema EXCEPT !.required = {}]

updateNoteSchema == partial(insertNoteSchema)

\* schema.parse(body) throws a ZodError: a required key is missing, or a key of the
\* schema carries a value of another type.
ZodError(schema, body) ==
    \/ ~(schema.required \subseteq DOMAIN body)
    \/ "wrongType" \in DOMAIN body /\ body.wrongType \cap schema.keys # {}

\* color: insertCategory.color ?? "#3b82f6" : the default for a missing color only.
NewCategoryNullish(insertCategory, id, t) ==
    [id |-> id,
     name |-> insertCategory.name,
     color |-> IF "color" \in DOMAIN insertCategory
               THEN insertCategory.color ELSE DefaultColor,
     createdAt |-> t]

\* createCategory: { ...insertCategory, id, color: insertCategory.color || "#3b82f6",
\*                   createdAt: new Date() }
NewCategory(insertCategory, id, t) ==
    [id |-> id,
     name |-> insertCategory.name,
     color |-> IF "color" \in DOMAIN insertCategory /\ insertCategory.color # ""
               THEN insertCategory.color ELSE DefaultColor,
     createdAt |-> t]

\* A note whose missing content is filled with its title.
NewNoteTitled(insertNote, id, t) ==
    [id |-> id,
     title |-> insertNote.title,
     content |-> IF "content" \in DOMAIN insertNote THEN insertNote.content
                 ELSE insertNote.title,
     categoryId |-> insertNote.categoryId,
     tags |-> IF "tags" \in DOMAIN insertNote THEN insertNote.tags ELSE <<>>,
     createdAt |-> t,
     updatedAt |-> t]

\* createNote: { ...insertNote, id, content: insertNote.content || "",
\*               tags: insertNote.tags || [], createdAt: now, updatedAt: now }
NewNote(insertNote, id, t) ==
    [id |-> id,
     title |-> insertNote.title,
     content |-> IF "content" \in DOMAIN insertNote THEN insertNote.content ELSE <<>>,
     categoryId |-> insertNote.categoryId,
     tags |-> IF "tags" \in DOMAIN insertNote THEN insertNote.tags ELSE <<>>,
     createdAt |-> t,
     updatedAt |-> t]

\* noteForDb: the note with tags: JSON.stringify(note.tags), instants as the driver
\* stores them.
RowOfNote(note) ==
    [id |-> note.id, title |-> note.title, content |-> note.content,
     categoryId |-> note.categoryId, tags |-> JsonStringify(note.tags),
     createdAt |-> ToDriver(note.createdAt), updatedAt |-> ToDriver(note.updatedAt)]

\* updateNote: updated = { ...existing, ...noteUpdate, updatedAt: new Date() }
UpdatedNote(existing, noteUpdate, t) ==
    [Spread(existing, noteUpdate) EXCEPT !.updatedAt = t]

\* updateForDb.content = noteUpdate.content || "" : a missing content written as empty.
UpdateForDbContent(noteUpdate, t) ==
    [f \in {"updatedAt", "content"} \cup (DOMAIN noteUpdate \cap NoteKeys) |->
        CASE f = "updatedAt" -> ToDriver(t)
          [] f = "tags" -> JsonStringify(noteUpdate.tags)
          [] f = "content" ->
                IF "content" \in DOMAIN noteUpdate THEN noteUpdate.content ELSE <<>>
          [] OTHER -> noteUpdate[f]]

\* updateForDb that stamps createdAt as well.
UpdateForDbCreated(noteUpdate, t) ==
    [f \in {"updatedAt", "createdAt"} \cup (DOMAIN noteUpdate \cap NoteKeys) |->
        CASE f \in {"updatedAt", "createdAt"} -> ToDriver(t)
          [] f = "tags" -> JsonStringify(noteUpdate.tags)
          [] OTHER -> noteUpdate[f]]

\* updateForDb without updatedAt: the row keeps its stamp.
UpdateForDbNoStamp(noteUpdate, t) ==
    [f \in DOMAIN noteUpdate \cap NoteKeys |->
        CASE f = "tags" -> JsonStringify(noteUpdate.tags)
          [] OTHER -> noteUpdate[f]]

\* updateNote: updateForDb = updatedAt, and each of title, content, categoryId, tags
\* that noteUpdate carries, tags as JSON.stringify(noteUpdate.tags).
UpdateForDb(noteUpdate, t) ==
    [f \in {"updatedAt"} \cup (DOMAIN noteUpdate \cap NoteKeys) |->
        CASE f = "updatedAt" -> ToDriver(t)
          [] f = "tags" -> JsonStringify(noteUpdate.tags)
          [] OTHER -> noteUpdate[f]]

\* UPDATE table SET set WHERE id = id
UpdateRows(rows, id, set) == {IF r.id = id THEN Spread(r, set) ELSE r : r \in rows}

\* updateCategory: updated = { ...existing, ...categoryUpdate }
UpdatedCategory(existing, categoryUpdate) == Spread(existing, categoryUpdate)

\* ---------------------------------------------------------- request slots
\* The slots of the requests that may be in flight at once are the domain of req.
Procs == DOMAIN req

FreeProcs == {p \in Procs : req[p] = Idle}

\* A request that suspends at an await takes the lowest free slot.
Slot == CHOOSE p \in FreeProcs : \A q \in FreeProcs : p <= q

Response(op, input, status, body) ==
    [op |-> op, input |-> input, status |-> status, body |-> body]

UserCats == nextCatId - 1 - seedRuns * Len(DefaultCategories)

\* null and "": no id.  The code only ever tests such a value for truthiness.
None == 0

\* The page as first rendered: the states of Notepad and Editor hold their initial
\* values, no query has been answered, and the effect that arms the auto-save
\* timeout has run once.
Mounted ==
    /\ sidebarOpen = FALSE
    /\ selectedCategoryId = None
    /\ selectedNoteId = None
    /\ searchQuery = <<>>
    /\ categoriesQuery = <<>>
    /\ notesQuery = {}
    /\ deleteCategoryMutation = {}
    /\ createNoteMutation = {}
    /\ title = <<>>
    /\ timer = TRUE

\* The state once new SqliteStorage() has run on a new database file: the tables
\* exist and hold the seeded defaults; no request has arrived.
InitWith(slots) ==
    /\ categories = SeedRows(1, 0)
    /\ notes = {}
    /\ now = 0
    /\ nextCatId = 1 + Len(DefaultCategories)
    /\ nextNoteId = 1
    /\ seedRuns = 1
    /\ req = [p \in slots |-> Idle]
    /\ last = Response("start", NoBody, 0, NoBody)
    /\ isMobile = FALSE
    /\ Mounted

\* ---------------------------------------------------------------- actions
\* The wall clock advances.
Tick ==
    /\ now + TickMs <= MaxTicks * TickMs
    /\ now' = now + TickMs
    /\ UNCHANGED <<categories, notes, nextCatId, nextNoteId, seedRuns, req, last>>

\* The process stops (requests in flight are lost) and starts again:
\* new SqliteStorage() runs initializeDatabase (CREATE TABLE IF NOT EXISTS) and
\* seedDatabase on the database file as it was left.
seedDatabase ==
    /\ SeedNeeded => seedRuns < MaxSeedRuns
    /\ IF SeedNeeded
       THEN /\ categories' = SeedRows(nextCatId, now)
            /\ nextCatId' = nextCatId + Len(DefaultCategories)
            /\ seedRuns' = seedRuns + 1
       ELSE UNCHANGED <<categories, nextCatId, seedRuns>>
    /\ req' = [p \in Procs |-> Idle]
    /\ last' = Response("seedDatabase", NoBody, 0, NoBody)
    /\ UNCHANGED <<notes, now, nextNoteId>>

\* POST /api/categories
createCategory(body) ==
    LET insertCategory == Strip(body, CategoryKeys)
        category == NewCategory(insertCategory, nextCatId, now)
    IN IF ZodError(insertCategorySchema, body)
       THEN /\ last' = Response("createCategory", body, 400, NoBody)
            /\ UNCHANGED <<categories, notes, now, nextCatId, nextNoteId, seedRuns, req>>
       ELSE /\ UserCats < MaxUserCats
            /\ categories' = categories \cup {RowOfCategory(category)}
            /\ nextCatId' = nextCatId + 1
            /\ last' = Response("createCategory", body, 201, category)
            /\ UNCHANGED <<notes, now, nextNoteId, seedRuns, req>>

\* PUT /api/categories/:id, up to  const existing = await this.getCategory(id)
updateCategoryBegin(id, body) ==
    LET categoryUpdate == Strip(body, CategoryKeys)
        input == [id |-> id, patch |-> categoryUpdate]
    IN IF ZodError(partial(insertCategorySchema), body)
       THEN /\ last' = Response("updateCategory", input, 400, NoBody)
            /\ UNCHANGED <<categories, notes, now, nextCatId, nextNoteId, seedRuns, req>>
       ELSE IF id \notin CatIds
       THEN /\ last' = Response("updateCategory", input, 404, NoBody)
            /\ UNCHANGED <<categories, notes, now, nextCatId, nextNoteId, seedRuns, req>>
       ELSE /\ FreeProcs # {}
            /\ req' = [req EXCEPT ![Slot] = [op |-> "updateCategory", id |-> id,
                                             patch |-> categoryUpdate,
                                             existing |-> getCategory(id)]]
            /\ UNCHANGED <<categories, notes, now, nextCatId, nextNoteId, seedRuns, last>>

\* PUT /api/categories/:id, after the await: db.update(categories).set(categoryUpdate)
\* (drizzle throws "No values to set" for a set without a value), return updated.
updateCategoryEnd(p) ==
    LET r == req[p]
        input == [id |-> r.id, patch |-> r.patch]
    IN /\ r.op = "updateCategory"
       /\ req' = [req EXCEPT ![p] = Idle]
       /\ IF DOMAIN r.patch = {}
          THEN /\ last' = Response("updateCategory", input, 500, NoBody)
               /\ UNCHANGED categories
          ELSE /\ categories' = UpdateRows(categories, r.id, r.patch)
               /\ last' = Response("updateCategory", input, 200,
                                   UpdatedCategory(r.existing, r.patch))
       /\ UNCHANGED <<notes, now, nextCatId, nextNoteId, seedRuns>>

\* The first statement without its where: every note goes.
deleteCategoryNotesAll(id) ==
    /\ FreeProcs # {}
    /\ notes' = {}
    /\ req' = [req EXCEPT ![Slot] = [op |-> "deleteCategory", id |-> id]]
    /\ last' = Response("deleteCategory:notes", [id |-> id], 0, NoBody)
    /\ UNCHANGED <<categories, now, nextCatId, nextNoteId, seedRuns>>

\* DELETE /api/categories/:id, first statement: db.delete(notes).where(categoryId = id)
deleteCategoryNotes(id) ==
    /\ FreeProcs # {}
    /\ notes' = {n \in notes : n.categoryId # id}
    /\ req' = [req EXCEPT ![Slot] = [op |-> "deleteCategory", id |-> id]]
    /\ last' = Response("deleteCategory:notes", [id |-> id], 0, NoBody)
    /\ UNCHANGED <<categories, now, nextCatId, nextNoteId, seedRuns>>

\* A second statement whose answer is whether a note of the category was left to delete.
deleteCategoryRowByNotes(p) ==
    LET r == req[p]
        changes == Cardinality({n \in notes : n.categoryId = r.id})
    IN /\ r.op = "deleteCategory"
       /\ req' = [req EXCEPT ![p] = Idle]
       /\ categories' = {c \in categories : c.id # r.id}
       /\ notes' = OnDeleteCascade(notes, r.id)
       /\ last' = Response("deleteCategory", [id |-> r.id],
                           IF changes > 0 THEN 204 ELSE 404, NoBody)
       /\ UNCHANGED <<now, nextCatId, nextNoteId, seedRuns>>

\* DELETE /api/categories/:id, second statement: db.delete(categories).where(id = id),
\* return result.changes > 0
deleteCategoryRow(p) ==
    LET r == req[p]
        changes == Cardinality({c \in categories : c.id = r.id})
    IN /\ r.op = "deleteCategory"
       /\ req' = [req EXCEPT ![p] = Idle]
       /\ categories' = {c \in categories : c.id # r.id}
       /\ notes' = IF changes > 0 THEN OnDeleteCascade(notes, r.id) ELSE notes
       /\ last' = Response("deleteCategory", [id |-> r.id],
                           IF changes > 0 THEN 204 ELSE 404, NoBody)
       /\ UNCHANGED <<now, nextCatId, nextNoteId, seedRuns>>

\* POST /api/notes
createNote(body) ==
    LET insertNote == Strip(body, NoteKeys)
        note == NewNote(insertNote, nextNoteId, now)
    IN IF ZodError(insertNoteSchema, body)
       THEN /\ last' = Response("createNote", body, 400, NoBody)
            /\ UNCHANGED <<categories, notes, now, nextCatId, nextNoteId, seedRuns, req>>
       ELSE IF ~ForeignKeyOk(note.categoryId)
       THEN /\ last' = Response("createNote", body, 500, NoBody)
            /\ UNCHANGED <<categories, notes, now, nextCatId, nextNoteId, seedRuns, req>>
       ELSE /\ nextNoteId <= MaxNotes
            /\ notes' = notes \cup {RowOfNote(note)}
            /\ nextNoteId' = nextNoteId + 1
            /\ last' = Response("createNote", body, 201, note)
            /\ UNCHANGED <<categories, now, nextCatId, seedRuns, req>>

\* PUT /api/notes/:id, up to  const existing = await this.getNote(id)
updateNoteBegin(id, body) ==
    LET noteUpdate == Strip(body, NoteKeys)
        input == [id |-> id, patch |-> noteUpdate]
    IN IF ZodError(updateNoteSchema, body)
       THEN /\ last' = Response("updateNote", input, 400, NoBody)
            /\ UNCHANGED <<categories, notes, now, nextCatId, nextNoteId, seedRuns, req>>
       ELSE IF id \notin NoteIds
       THEN /\ last' = Response("updateNote", input, 404, NoBody)
            /\ UNCHANGED <<categories, notes, now, nextCatId, nextNoteId, seedRuns, req>>
       ELSE /\ FreeProcs # {}
            /\ req' = [req EXCEPT ![Slot] = [op |-> "updateNote", id |-> id,
                                             patch |-> noteUpdate,
                                             existing |-> getNote(id)]]
            /\ UNCHANGED <<categories, notes, now, nextCatId, nextNoteId, seedRuns, last>>

\* PUT /api/notes/:id, after the await: db.update(notes).set(updateForDb), return updated.
\* The statement fails only if it would write a row whose category_id names no category.
updateNoteEnd(p) ==
    LET r == req[p]
        input == [id |-> r.id, patch |-> r.patch]
        updated == UpdatedNote(r.existing, r.patch, now)
        updateForDb == UpdateForDb(r.patch, now)
    IN /\ r.op = "updateNote"
       /\ req' = [req EXCEPT ![p] = Idle]
       /\ IF /\ r.id \in NoteIds
             /\ "categoryId" \in DOMAIN updateForDb
             /\ ~ForeignKeyOk(updateForDb.categoryId)
          THEN /\ last' = Response("updateNote", input, 500, NoBody)
               /\ UNCHANGED notes
          ELSE /\ notes' = UpdateRows(notes, r.id, updateForDb)
               /\ last' = Response("updateNote", input, 200, updated)
       /\ UNCHANGED <<categories, now, nextCatId, nextNoteId, seedRuns>>

\* A delete whose where compares with lte in place of eq.
deleteNoteUpTo(id) ==
    LET changes == Cardinality({n \in notes : n.id <= id})
    IN /\ notes' = {n \in notes : n.id > id}
       /\ last' = Response("deleteNote", [id |-> id],
                           IF changes > 0 THEN 204 ELSE 404, NoBody)
       /\ UNCHANGED <<categories, now, nextCatId, nextNoteId, seedRuns, req>>

\* DELETE /api/notes/:id
deleteNote(id) ==
    LET changes == Cardinality({n \in notes : n.id = id})
    IN /\ notes' = {n \in notes : n.id # id}
       /\ last' = Response("deleteNote", [id |-> id],
                           IF changes > 0 THEN 204 ELSE 404, NoBody)
       /\ UNCHANGED <<categories, now, nextCatId, nextNoteId, seedRuns, req>>


\* A read by id that answers without looking whether the note was found.
getNoteRouteFound(id) ==
    /\ last' = Response("getNote", [id |-> id], 200, getNote(id))
    /\ UNCHANGED <<categories, notes, now, nextCatId, nextNoteId, seedRuns, req>>

\* GET /api/notes/:id
getNoteRoute(id) ==
    /\ last' = Response("getNote", [id |-> id],
                        IF getNote(id) = NoBody THEN 404 ELSE 200, getNote(id))
    /\ UNCHANGED <<categories, notes, now, nextCatId, nextNoteId, seedRuns, req>>

\* deleteCategory has no await: from its first statement to its return no other
\* request runs (the process can still stop, and the clock still runs).
InDeleteCategory == \E p \in Procs : req[p].op = "deleteCategory"

\* ----------------------------------------------------------------- inputs
\* What clients send, as a record of finite sets E: request bodies and the ids that
\* requests name.  Id 0 was never handed out; 1..4 are the categories seeded first
\* (and 1, 2 the notes created first); 5 is the first category a client creates.
Requests(E) ==
    \/ \E p \in Procs : deleteCategoryRow(p) /\ UNCHANGED client
    \/ \E body \in E.categoryBodies :
          ~InDeleteCategory /\ createCategory(body) /\ UNCHANGED client
    \/ \E id \in E.categoryIds, body \in E.categoryPatches :
          ~InDeleteCategory /\ updateCategoryBegin(id, body) /\ UNCHANGED client
    \/ \E p \in Procs : ~InDeleteCategory /\ updateCategoryEnd(p) /\ UNCHANGED client
    \/ \E id \in E.categoryDeletes :
          ~InDeleteCategory /\ deleteCategoryNotes(id) /\ UNCHANGED client
    \/ \E body \in E.noteBodies : ~InDeleteCategory /\ createNote(body) /\ UNCHANGED client
    \/ \E id \in E.noteIds, body \in E.notePatches :
          ~InDeleteCategory /\ updateNoteBegin(id, body) /\ UNCHANGED client
    \/ \E p \in Procs : ~InDeleteCategory /\ updateNoteEnd(p) /\ UNCHANGED client
    \/ \E id \in E.noteDeletes : ~InDeleteCategory /\ deleteNote(id) /\ UNCHANGED client

\* Two requests in flight, notes moving between categories that come and go.
EnvRace ==
    [categoryBodies |-> { [name |-> "X"] },
     categoryIds |-> {5},
     categoryPatches |-> { [name |-> "Y"] },
     categoryDeletes |-> {1, 5},
     noteBodies |-> { [title |-> <<"a">>, categoryId |-> c] : c \in {1, 5} },
     noteIds |-> {1, 2},
     notePatches |-> { [categoryId |-> 5], [title |-> <<"b">>] },
     noteDeletes |-> {1}]

Init == InitWith({1, 2})

Next == Requests(EnvRace)

Spec == Init /\ [][Next]_vars


\* One request at a time suspended; note texts and tag lists of several shapes, among
\* them tags that hold the characters JSON escapes.
TagsAB == << <<"a">>, <<"b">> >>

TagsDup == << <<"b">>, <<"a">>, <<"b">> >>

TagsQuoted == << <<"a", "\"", ",", "\"">>, <<"\\">> >>

EnvText ==
    [categoryBodies |-> { [name |-> "X"] },
     categoryIds |-> {5},
     categoryPatches |-> { [name |-> "X"] },
     categoryDeletes |-> {5},
     noteBodies |->
        { [title |-> <<"a">>, categoryId |-> 1],
          [title |-> <<"A", "b">>, content |-> <<"b">>, categoryId |-> 2, tags |-> TagsAB],
          [title |-> <<"a">>, content |-> <<"B">>, categoryId |-> 1, tags |-> TagsQuoted],
          [title |-> <<"b">>, categoryId |-> 2, tags |-> <<>>] },
     noteIds |-> {1},
     notePatches |->
        { <<>>, [title |-> <<"b">>], [content |-> <<"a">>], [categoryId |-> 2],
          [tags |-> TagsDup],
          [title |-> <<"a">>, content |-> <<>>, tags |-> <<>>] },
     noteDeletes |-> {2}]

NextText == Requests(EnvText)

SpecText == InitWith({1}) /\ [][NextText]_vars

\* The clock runs; one note text, one category shape; every category can be deleted.
EnvClock ==
    [categoryBodies |-> { [name |-> "X"] },
     categoryIds |-> {5},
     categoryPatches |-> { [name |-> "X"] },
     categoryDeletes |-> 1..5,
     noteBodies |-> { [title |-> <<"a">>, categoryId |-> 1] },
     noteIds |-> {1},
     notePatches |-> { <<>>, [title |-> <<"b">>], [createdAt |-> 5000, title |-> <<"b">>] },
     noteDeletes |-> {1}]

NextClock == (Tick /\ UNCHANGED client) \/ Requests(EnvClock)

SpecClock == InitWith({1}) /\ [][NextClock]_vars

\* The process restarts; every seeded category can be changed and deleted, and
\* categories are created with and without a color.
EnvSeed ==
    [categoryBodies |->
        { [name |-> "X"], [name |-> "X", color |-> ""],
          [name |-> "X", color |-> "#ff0000"], [color |-> "#ff0000"] },
     categoryIds |-> {1, 5},
     categoryPatches |-> { <<>>, [name |-> "Y"], [color |-> "#00ff00"] },
     categoryDeletes |-> 0..5,
     noteBodies |-> { [title |-> <<"a">>, categoryId |-> 1] },
     noteIds |-> {1},
     notePatches |-> { [title |-> <<"a">>] },
     noteDeletes |-> {1}]

NextSeed == (seedDatabase /\ UNCHANGED client) \/ Requests(EnvSeed)

SpecSeed == InitWith({1}) /\ [][NextSeed]_vars

\* Requests of every outcome: bodies that miss a required field or carry a value of a
\* wrong type or an id field, empty names, ids that were never handed out, categories
\* that do not exist; notes are also read by id.
EnvHttp ==
    [categoryBodies |->
        { [name |-> "X"], [name |-> ""], [color |-> "#ff0000"],
          [name |-> "X", wrongType |-> {"name"}] },
     categoryIds |-> {0, 1},
     categoryPatches |->
        { <<>>, [name |-> ""], [color |-> "#00ff00"],
          [name |-> "Y", wrongType |-> {"name"}], [id |-> 2, color |-> "#00ff00"] },
     categoryDeletes |-> {0, 1},
     noteBodies |->
        { [title |-> <<"a">>, categoryId |-> 1], [title |-> <<"a">>, categoryId |-> 0],
          [title |-> <<"a">>], [categoryId |-> 1],
          [title |-> <<"a">>, categoryId |-> 1, wrongType |-> {"title"}] },
     noteIds |-> {0, 1},
     notePatches |->
        { [title |-> <<"b">>], [categoryId |-> 0], [categoryId |-> 2],
          [content |-> <<"b">>, wrongType |-> {"content"}],
          [id |-> 2, content |-> <<"b">>] },
     noteDeletes |-> {0, 1},
     noteGets |-> {0, 1}]

NextHttp ==
    \/ \E id \in EnvHttp.noteGets : getNoteRoute(id) /\ UNCHANGED client
    \/ Requests(EnvHttp)

SpecHttp == InitWith({1}) /\ [][NextHttp]_vars

\* ------------------------------------------------------------------- page
\* The browser page: Notepad (selection state), Sidebar (category list, delete
\* mutation), Editor (title, auto-save).  Only the title is typed: content stays ""
\* and tags [].  A request of the page reaches the server in the step that sends it;
\* its answer, and the refetch of an invalidated query, arrive any number of steps
\* later.  Handlers run to completion, and React renders and runs the effects whose
\* dependencies changed before the next event.
server == <<categories, notes, now, nextCatId, nextNoteId, seedRuns, req, last>>

\* String.prototype.trim, over text whose only white space is the blank.
RECURSIVE trimStart(_)
trimStart(s) == IF s # <<>> /\ Head(s) = " " THEN trimStart(Tail(s)) ELSE s

trim(s) == Reverse(trimStart(Reverse(trimStart(s))))

Untitled == <<"U", "n", "t", "i", "t", "l", "e", "d">>

\* Array.prototype.find on the id: the first entry with the id, or undefined.
find(list, id) ==
    LET at == {i \in DOMAIN list : list[i].id = id}
    IN IF at = {} THEN NoBody ELSE list[CHOOSE i \in at : \A j \in at : i <= j]

\* useNotes(categoryId, search): the request carries the parameters that are truthy.
NotesParams(categoryId, search) ==
    IF categoryId # None
    THEN IF search # <<>> THEN [categoryId |-> categoryId, search |-> search]
         ELSE [categoryId |-> categoryId]
    ELSE IF search # <<>> THEN [search |-> search] ELSE <<>>

\* Editor: const { data: notes = [] } = useNotes(categoryId)
EditorNotes ==
    LET cached == {q \in notesQuery : q.categoryId = selectedCategoryId}
    IN IF cached = {} THEN <<>> ELSE (CHOOSE q \in cached : TRUE).data

\* Editor: const currentNote = notes.find(note => note.id === noteId)
currentNote == find(EditorNotes, selectedNoteId)

\* The effects of Editor after a render.  The load effect (dependency currentNote)
\* copies the title of currentNote, or clears it when there is none; the timer effect
\* clears the timeout and sets a new one when title, noteId, categoryId or autoSave
\* (hence currentNote) changed.  typed and pending are the title and the timeout as
\* the event left them.
EditorEffects(typed, pending) ==
    /\ title' = IF currentNote' = currentNote THEN typed
                ELSE IF currentNote' = NoBody THEN <<>> ELSE currentNote'.title
    /\ timer' = \/ pending
                \/ title' # title
                \/ selectedNoteId' # selectedNoteId
                \/ selectedCategoryId' # selectedCategoryId
                \/ currentNote' # currentNote

\* A category selection that keeps the selected note.
handleCategorySelectKeep(categoryId) ==
    /\ selectedCategoryId' = categoryId
    /\ sidebarOpen' = IF isMobile THEN FALSE ELSE sidebarOpen
    /\ UNCHANGED <<selectedNoteId, searchQuery, isMobile>>

\* Notepad.handleCategorySelect
handleCategorySelect(categoryId) ==
    /\ selectedCategoryId' = categoryId
    /\ selectedNoteId' = None
    /\ sidebarOpen' = IF isMobile THEN FALSE ELSE sidebarOpen
    /\ UNCHANGED <<searchQuery, isMobile>>

\* Notepad.handleNoteSelect
handleNoteSelect(noteId) ==
    /\ selectedNoteId' = noteId
    /\ UNCHANGED <<selectedCategoryId, sidebarOpen, searchQuery, isMobile>>

\* Notepad.handleNewNote
handleNewNote(categoryId) ==
    /\ selectedCategoryId' = categoryId
    /\ selectedNoteId' = None
    /\ sidebarOpen' = IF isMobile THEN FALSE ELSE sidebarOpen
    /\ UNCHANGED <<searchQuery, isMobile>>

\* What the page reads of a cached category or note: Sidebar the id of a category,
\* Editor the id and the title of a note (the other fields are only displayed).
CategoriesRead(list) == [i \in DOMAIN list |-> [id |-> list[i].id]]

NotesRead(list) == [i \in DOMAIN list |-> [id |-> list[i].id, title |-> list[i].title]]

\* The query ["/api/categories"] is fetched: on mount, and again after an invalidation.
CategoriesRefetch ==
    /\ ~InDeleteCategory
    /\ categoriesQuery' = CategoriesRead(CategoriesRoute)
    /\ UNCHANGED <<server, isMobile, sidebarOpen, selectedCategoryId, selectedNoteId,
                   searchQuery, notesQuery, deleteCategoryMutation, createNoteMutation,
                   title, timer>>

\* The query of useNotes(categoryId) in Editor is fetched: when its key is first used,
\* and again after an invalidation.
NotesRefetch ==
    /\ ~InDeleteCategory
    /\ notesQuery' = {q \in notesQuery : q.categoryId # selectedCategoryId}
                     \cup {[categoryId |-> selectedCategoryId,
                            data |-> NotesRead(NotesRoute(NotesParams(selectedCategoryId, <<>>)))]}
    /\ UNCHANGED <<server, isMobile, sidebarOpen, selectedCategoryId, selectedNoteId,
                   searchQuery, categoriesQuery, deleteCategoryMutation,
                   createNoteMutation>>
    /\ EditorEffects(title, timer)

\* Sidebar: a click on a listed category, onCategorySelect(category.id)
CategoryClick(id) ==
    /\ find(categoriesQuery, id) # NoBody
    /\ handleCategorySelect(id)
    /\ UNCHANGED <<server, categoriesQuery, notesQuery, deleteCategoryMutation,
                   createNoteMutation>>
    /\ EditorEffects(title, timer)

\* NotesPanel: a click on a listed note, onNoteSelect(note.id).  The panel lists
\* useNotes(categoryId, searchQuery), here as the server answers it now.
NoteClick(id) ==
    /\ find(NotesRoute(NotesParams(selectedCategoryId, searchQuery)), id) # NoBody
    /\ handleNoteSelect(id)
    /\ UNCHANGED <<server, categoriesQuery, notesQuery, deleteCategoryMutation,
                   createNoteMutation>>
    /\ EditorEffects(title, timer)

\* Sidebar.handleNewNote (the "New Note" button)
NewNoteClick ==
    /\ IF selectedCategoryId = None /\ categoriesQuery # <<>>
       THEN /\ handleCategorySelect(categoriesQuery[1].id)
            /\ handleNewNote(categoriesQuery[1].id)
       ELSE IF selectedCategoryId # None
       THEN handleNewNote(selectedCategoryId)
       ELSE UNCHANGED <<selectedCategoryId, selectedNoteId, sidebarOpen, searchQuery,
                        isMobile>>
    /\ UNCHANGED <<server, categoriesQuery, notesQuery, deleteCategoryMutation,
                   createNoteMutation>>
    /\ EditorEffects(title, timer)

\* Sidebar: the search input, onSearchChange = setSearchQuery
SearchChange(text) ==
    /\ searchQuery' = text
    /\ UNCHANGED <<server, isMobile, sidebarOpen, selectedCategoryId, selectedNoteId,
                   categoriesQuery, notesQuery, deleteCategoryMutation,
                   createNoteMutation, title, timer>>

\* NotesPanel.onToggleSidebar (open) and Sidebar.onClose, the mobile overlay (close)
SetSidebarOpen(open) ==
    /\ isMobile
    /\ sidebarOpen' = open
    /\ UNCHANGED <<server, isMobile, selectedCategoryId, selectedNoteId, searchQuery,
                   categoriesQuery, notesQuery, deleteCategoryMutation,
                   createNoteMutation, title, timer>>

\* Sidebar: deleteCategoryMutation.mutate(category.id) on a listed category; the
\* server runs deleteCategory up to its first statement.
DeleteCategoryClick(id) ==
    /\ find(categoriesQuery, id) # NoBody
    /\ ~InDeleteCategory
    /\ deleteCategoryNotes(id)
    /\ UNCHANGED client

\* The server ends deleteCategory and answers; apiRequest throws unless the status
\* is a success, and then onError runs (a toast).
DeleteCategoryAnswer(p) ==
    /\ deleteCategoryRow(p)
    /\ deleteCategoryMutation' =
          IF last'.status = 204 THEN deleteCategoryMutation \cup {last'.input.id}
          ELSE deleteCategoryMutation
    /\ UNCHANGED <<isMobile, sidebarOpen, selectedCategoryId, selectedNoteId,
                   searchQuery, categoriesQuery, notesQuery, createNoteMutation,
                   title, timer>>

\* Sidebar: deleteCategoryMutation.onSuccess.  invalidateQueries marks the queries
\* stale (CategoriesRefetch and NotesRefetch follow); the closure reads categories and
\* selectedCategoryId of the latest render.
DeleteCategorySuccess(id) ==
    /\ id \in deleteCategoryMutation
    /\ deleteCategoryMutation' = deleteCategoryMutation \ {id}
    /\ IF selectedCategoryId # None /\ find(categoriesQuery, selectedCategoryId) # NoBody
       THEN handleCategorySelect(IF categoriesQuery # <<>> THEN categoriesQuery[1].id
                                 ELSE None)
       ELSE UNCHANGED <<selectedCategoryId, selectedNoteId, sidebarOpen, searchQuery,
                        isMobile>>
    /\ UNCHANGED <<server, categoriesQuery, notesQuery, createNoteMutation>>
    /\ EditorEffects(title, timer)

\* Editor: the title input, onChange = setTitle
TitleChange(text) ==
    /\ selectedCategoryId # None
    /\ text # title
    /\ UNCHANGED <<server, isMobile, sidebarOpen, selectedCategoryId, selectedNoteId,
                   searchQuery, categoriesQuery, notesQuery, deleteCategoryMutation,
                   createNoteMutation>>
    /\ EditorEffects(text, timer)

\* Editor.autoSave: a PUT of the selected note if the cached list holds it, otherwise
\* a POST into the selected category.  The created note of a 201 answer waits for
\* createNoteMutation.onSuccess; an error answer ends in onError (a toast).
autoSave ==
    IF trim(title) = <<>>
    THEN UNCHANGED <<server, createNoteMutation>>
    ELSE IF selectedNoteId # None /\ currentNote # NoBody
    THEN /\ updateNoteBegin(selectedNoteId,
                            [title |-> trim(title), content |-> <<>>, tags |-> <<>>])
         /\ UNCHANGED createNoteMutation
    ELSE IF selectedCategoryId # None
    THEN /\ createNote([title |-> IF trim(title) # <<>> THEN trim(title) ELSE Untitled,
                        content |-> <<>>,
                        categoryId |-> selectedCategoryId,
                        tags |-> <<>>])
         /\ createNoteMutation' =
               IF last'.status = 201 THEN createNoteMutation \cup {last'.body.id}
               ELSE createNoteMutation
    ELSE UNCHANGED <<server, createNoteMutation>>

\* Editor: the auto-save timeout fires, one second after it was last set.
TimerFires ==
    /\ timer
    /\ ~InDeleteCategory
    /\ IF trim(title) # <<>> /\ (selectedNoteId # None \/ selectedCategoryId # None)
       THEN autoSave
       ELSE UNCHANGED <<server, createNoteMutation>>
    /\ timer' = FALSE
    /\ UNCHANGED <<isMobile, sidebarOpen, selectedCategoryId, selectedNoteId,
                   searchQuery, categoriesQuery, notesQuery, deleteCategoryMutation,
                   title>>

\* Editor: createNoteMutation.onSuccess, onNoteCreated(note.id) = setSelectedNoteId
CreateNoteSuccess(id) ==
    /\ id \in createNoteMutation
    /\ createNoteMutation' = createNoteMutation \ {id}
    /\ selectedNoteId' = id
    /\ UNCHANGED <<server, isMobile, sidebarOpen, selectedCategoryId, searchQuery,
                   categoriesQuery, notesQuery, deleteCategoryMutation>>
    /\ EditorEffects(title, timer)

\* The server ends an updateNote of the page and answers (onSuccess invalidates the
\* notes queries, onError shows a toast).
UpdateNoteAnswer(p) ==
    /\ ~InDeleteCategory
    /\ updateNoteEnd(p)
    /\ UNCHANGED client

\* What the user does, as a record of finite sets E: the categories clicked and
\* deleted, the notes clicked, and the texts typed.
SidebarSteps(E) ==
    \/ CategoriesRefetch
    \/ \E id \in E.categoryClicks : CategoryClick(id)
    \/ NewNoteClick
    \/ \E text \in E.searches : SearchChange(text)
    \/ \E open \in BOOLEAN : SetSidebarOpen(open)

DeleteSteps(E) ==
    \/ \E id \in E.categoryDeletes : DeleteCategoryClick(id)
    \/ \E p \in Procs : DeleteCategoryAnswer(p)
    \/ \E id \in E.categoryDeletes : DeleteCategorySuccess(id)

PanelSteps(E) == \E id \in E.noteClicks : NoteClick(id)

EditorSteps(E) ==
    \/ NotesRefetch
    \/ \E text \in E.titles : TitleChange(text)
    \/ TimerFires
    \/ \E id \in 1..MaxNotes : CreateNoteSuccess(id)
    \/ \E p \in Procs : UpdateNoteAnswer(p)

\* The page on a phone or on a desktop, over a new database.
InitPage ==
    /\ categories = SeedRows(1, 0)
    /\ notes = {}
    /\ now = 0
    /\ nextCatId = 1 + Len(DefaultCategories)
    /\ nextNoteId = 1
    /\ seedRuns = 1
    /\ req = [p \in {1} |-> Idle]
    /\ last = Response("start", NoBody, 0, NoBody)
    /\ isMobile \in BOOLEAN
    /\ Mounted

\* The user moves between the categories and deletes them, on a page without notes.
EnvSidebar ==
    [categoryClicks |-> {1, 2, 3},
     searches |-> { <<>>, <<"a">> },
     categoryDeletes |-> {1, 2, 3}]

NextSidebar == SidebarSteps(EnvSidebar) \/ DeleteSteps(EnvSidebar)

SpecSidebar == InitPage /\ [][NextSidebar]_vars

\* The user moves between two categories, types a title, and selects the notes that
\* auto-save created.
EnvNotepad ==
    [categoryClicks |-> {1, 2},
     noteClicks |-> {1, 2},
     searches |-> { <<>>, <<"a">> },
     titles |-> { <<"a">> }]

NextNotepad ==
    SidebarSteps(EnvNotepad) \/ PanelSteps(EnvNotepad) \/ EditorSteps(EnvNotepad)

SpecNotepad == InitPage /\ [][NextNotepad]_vars

\* One editing session: the user opens the first category once, selects nothing
\* else, and types.
EnvEditor == [titles |-> { <<"a">>, <<"a", " ">>, <<" ">>, <<"b">> }]

OpenCategory == selectedCategoryId = None /\ CategoryClick(1)

NextEditor == CategoriesRefetch \/ OpenCategory \/ EditorSteps(EnvEditor)

SpecEditor == InitPage /\ [][NextEditor]_vars

\* ================================================================= claims
RECURSIVE SumOver(_, _)
SumOver(ids, counts) ==
    IF ids = {} THEN 0
    ELSE LET c == CHOOSE x \in ids : TRUE
         IN (IF c \in DOMAIN counts THEN counts[c] ELSE 0) + SumOver(ids \ {c}, counts)

NotesIn(c) == {n \in notes : n.categoryId = c}

\* C1: in every reachable state, also between the two statements of deleteCategory and
\* while other requests are suspended at their awaits, every stored note's categoryId
\* is the id of a stored category.
C1_NoOrphanNotes == \A n \in notes : n.categoryId \in CatIds

\* C1 witness: between the two statements of a deleteCategory of a stored category,
\* while an updateNote that moves a stored note into that category is suspended.
C1_Witness ==
    \E p, q \in Procs :
        /\ req[p].op = "deleteCategory"
        /\ req[p].id \in CatIds
        /\ req[q].op = "updateNote"
        /\ req[q].id \in NoteIds
        /\ "categoryId" \in DOMAIN req[q].patch
        /\ req[q].patch.categoryId = req[p].id

\* C2: once deleteCategory(C) has returned, no stored note has categoryId C and
\* getCategory(C) is not found; and neither of its two statements changes a category
\* other than C or a note of another category.
C2_CascadeDelete ==
    /\ [](last.op = "deleteCategory" =>
            /\ NotesIn(last.input.id) = {}
            /\ getCategory(last.input.id) = NoBody)
    /\ [][last'.op \in {"deleteCategory:notes", "deleteCategory"} =>
            LET C == last'.input.id IN
            /\ {c \in categories' : c.id # C} = {c \in categories : c.id # C}
            /\ {n \in notes' : n.categoryId # C} = {n \in notes : n.categoryId # C}]_vars

\* C2 witness: deleteCategory has returned true and both notes ever created are gone,
\* of which deleteNote can have removed only note 1.
C2_Witness ==
    /\ last.op = "deleteCategory"
    /\ last.status = 204
    /\ nextNoteId = 3
    /\ notes = {}

\* C7: getCategoryNoteCounts maps each category id to the number of stored notes of
\* that category, has no entry for an id without notes, and its counts summed over the
\* stored categories give the number of stored notes.
C7_NoteCounts ==
    LET counts == getCategoryNoteCounts IN
    /\ DOMAIN counts = {c \in CatIds \cup {n.categoryId : n \in notes} : NotesIn(c) # {}}
    /\ \A c \in DOMAIN counts : counts[c] = Cardinality(NotesIn(c))
    /\ SumOver(CatIds, counts) = Cardinality(notes)

\* C7 witness: one category holds two notes while another category holds none.
C7_Witness ==
    \E c, d \in CatIds : Cardinality(NotesIn(c)) = 2 /\ NotesIn(d) = {}

\* The categories table holds what a seeding of the empty table left, and nothing else.
SeededOnly ==
    \E firstId \in 1..nextCatId, sec \in 0..ToDriver(now) :
        categories = SeedRows(firstId, FromDriver(sec))

NamedCounts(cats) == {[name |-> cats[i].name, color |-> cats[i].color,
                       noteCount |-> cats[i].noteCount] : i \in 1..Len(cats)}

FourDefaults(countOf) ==
    { [name |-> "Work Notes", color |-> "#3b82f6", noteCount |-> countOf["Work Notes"]],
      [name |-> "Personal", color |-> "#10b981", noteCount |-> countOf["Personal"]],
      [name |-> "Ideas", color |-> "#ef4444", noteCount |-> countOf["Ideas"]],
      [name |-> "Prompts", color |-> "#8b5cf6", noteCount |-> countOf["Prompts"]] }

DefaultNames == {"Work Notes", "Personal", "Ideas", "Prompts"}

\* C8: on a store that holds the seeded defaults and no note, GET /api/categories
\* returns the four fixed categories, each with noteCount 0; once one note has been
\* created in a seeded category K, GET /api/notes?categoryId=K returns that note alone
\* and GET /api/categories reports noteCount 1 for K and 0 for the other three.
C8_SeededScenario ==
    /\ (SeededOnly /\ notes = {}) =>
          /\ Len(CategoriesRoute) = 4
          /\ NamedCounts(CategoriesRoute) = FourDefaults([n \in DefaultNames |-> 0])
    /\ (SeededOnly /\ last.op = "createNote" /\ last.status = 201
           /\ Cardinality(notes) = 1) =>
          LET note == last.body
              K == note.categoryId
              got == NotesRoute([categoryId |-> K])
              name == CatRow(K).name
          IN /\ K \in CatIds
             /\ Len(got) = 1
             /\ got[1].id = note.id /\ got[1].title = note.title
             /\ got[1].content = note.content /\ got[1].tags = note.tags
             /\ got[1].categoryId = K
             /\ Len(CategoriesRoute) = 4
             /\ NamedCounts(CategoriesRoute) =
                   FourDefaults([n \in DefaultNames |-> IF n = name THEN 1 ELSE 0])

\* C8 witness: the seeded store with the one note just created in Work Notes.
C8_Witness ==
    /\ SeededOnly
    /\ last.op = "createNote" /\ last.status = 201
    /\ Cardinality(notes) = 1
    /\ CatRow(last.body.categoryId).name = "Work Notes"


\* The step in which the updateNote suspended in slot p returns a record.
UpdateNoteReturns(p) ==
    /\ req[p].op = "updateNote"
    /\ req'[p] = Idle
    /\ last'.op = "updateNote"
    /\ last'.status = 200

\* C3: when updateNote(id, P) returns, each of title, content, categoryId and tags of
\* the returned record is P's value if P carries the field and else the value of the
\* record read at the start of the call, and of the stored record P's value or else the
\* value stored until then; id and createdAt are those of before.
C3_PartialUpdateFrame ==
    [][\A p \in Procs : UpdateNoteReturns(p) =>
          \A P \in {req[p].patch}, N \in {req[p].existing}, id \in {req[p].id},
             returned \in {last'.body} :
             /\ \A f \in NoteKeys : returned[f] = IF f \in DOMAIN P THEN P[f] ELSE N[f]
             /\ returned.id = N.id
             /\ returned.createdAt = N.createdAt
             /\ id \in NoteIds =>
                   /\ id \in NoteIds'
                   /\ \A f \in NoteKeys :
                         getNote(id)'[f] = IF f \in DOMAIN P THEN P[f] ELSE getNote(id)[f]
                   /\ getNote(id)'.createdAt = getNote(id).createdAt]_vars

\* C3 witness: an update with only a title has returned for a note that has content and
\* tags.
C3_Witness ==
    /\ last.op = "updateNote" /\ last.status = 200
    /\ DOMAIN last.input.patch = {"title"}
    /\ last.input.id \in NoteIds
    /\ getNote(last.input.id).title = last.input.patch.title
    /\ getNote(last.input.id).content # <<>>
    /\ getNote(last.input.id).tags # <<>>

\* C4 as claimed: every updateNote that returns a record leaves the stored updatedAt
\* strictly greater than it was.
C4_StrictlyLater ==
    [][\A p \in Procs : (UpdateNoteReturns(p) /\ req[p].id \in NoteIds) =>
          \A id \in {req[p].id} : getNote(id)'.updatedAt > getNote(id).updatedAt]_vars

\* C4 amended: every updateNote that returns a record leaves the stored updatedAt at
\* the whole second of the clock at the update: not smaller than it was, and greater
\* exactly when that second is later than the second stored before.
C4_RefreshedToSecond ==
    [][\A p \in Procs : (UpdateNoteReturns(p) /\ req[p].id \in NoteIds) =>
          \A id \in {req[p].id} :
             \A before \in {getNote(id).updatedAt}, after \in {getNote(id)'.updatedAt} :
                /\ after = (now \div 1000) * 1000
                /\ after >= before
                /\ (after > before) <=> (now \div 1000 > before \div 1000)]_vars

\* C4 witness: an update has returned in a later second than the note's creation.
C4_Witness ==
    /\ last.op = "updateNote" /\ last.status = 200
    /\ last.input.id \in NoteIds
    /\ getNote(last.input.id).updatedAt > getNote(last.input.id).createdAt

\* s occurs in t as a run of consecutive characters.
IsSubstring(s, t) ==
    \E i \in 0..(Len(t) - Len(s)) : SubSeq(t, i + 1, i + Len(s)) = s

ContainsIgnoringCase(t, s) ==
    IsSubstring([i \in 1..Len(s) |-> Lower(s[i])], [i \in 1..Len(t) |-> Lower(t[i])])

Searches == { <<"A">>, <<"b">>, <<"a", "b">>, <<"\"", "a">>, <<"_">>, <<"%">> }

Queries ==
    { <<>> }
    \cup { [categoryId |-> c] : c \in {1, 2, 5} }
    \cup { [search |-> x] : x \in Searches }
    \cup { [categoryId |-> c, search |-> x] : c \in {1, 2, 5}, x \in Searches }

Claimed(q) ==
    { r \in notes :
        /\ "categoryId" \in DOMAIN q => r.categoryId = q.categoryId
        /\ "search" \in DOMAIN q =>
              \/ ContainsIgnoringCase(r.title, q.search)
              \/ ContainsIgnoringCase(r.content, q.search)
              \/ ContainsIgnoringCase(r.tags, q.search) }

Listed(q) == {getNotes(q)[i].id : i \in 1..Len(getNotes(q))}

\* C5: listNotes(categoryId, search) returns exactly the stored notes of that category
\* (if given) in whose title, content or serialized tags the search string (if given)
\* occurs, case ignored.
C5_ListNotesFilter ==
    \A q \in Queries :
        /\ Listed(q) = {r.id : r \in Claimed(q)}
        /\ Len(getNotes(q)) = Cardinality(Claimed(q))

\* C6: the tags given to createNote, and those given to updateNote, are read back by
\* getNote and by listNotes element for element in the same order.
C6_TagsRoundTrip ==
    LET given == IF last.op = "createNote" THEN last.input ELSE last.input.patch
        id == IF last.op = "createNote" THEN last.body.id ELSE last.input.id
        listed == getNotes(<<>>)
    IN (/\ last.op \in {"createNote", "updateNote"}
        /\ last.status \in {200, 201}
        /\ "tags" \in DOMAIN given
        /\ id \in NoteIds) =>
          /\ getNote(id).tags = given.tags
          /\ \E i \in 1..Len(listed) : listed[i].id = id /\ listed[i].tags = given.tags

\* C6 witness: tags with a repeated element and, in another note, tags holding a quote
\* have been read back as given.
C6_Witness ==
    /\ last.op = "updateNote" /\ last.status = 200
    /\ "tags" \in DOMAIN last.input.patch
    /\ last.input.id \in NoteIds
    /\ getNote(last.input.id).tags = TagsDup
    /\ \E r \in notes : NoteOfRow(r).tags = TagsQuoted

DefaultPairs ==
    { [name |-> "Work Notes", color |-> "#3b82f6"], [name |-> "Personal", color |-> "#10b981"],
      [name |-> "Ideas", color |-> "#ef4444"], [name |-> "Prompts", color |-> "#8b5cf6"] }

\* C9: seedDatabase inserts the four default categories exactly when the categories
\* table is empty; on a table with a category it changes no category; it never touches
\* a note; and no default is ever stored twice.
C9_SeedOnlyWhenEmpty ==
    /\ [][seedDatabase =>
            /\ IF categories = {}
               THEN /\ Cardinality(categories') = 4
                    /\ {[name |-> c.name, color |-> c.color] : c \in categories'}
                          = DefaultPairs
               ELSE categories' = categories
            /\ notes' = notes]_vars
    /\ [](\A d \in DefaultNames : Cardinality({c \in categories : c.name = d}) <= 1)

\* C9 witness: a restart found the table empty and seeded the defaults a second time.
C9_Witness ==
    /\ last.op = "seedDatabase"
    /\ seedRuns = 2
    /\ Cardinality(categories) = 4

\* C10: createCategory without a color, or with the empty color, stores and returns the
\* color "#3b82f6"; with a non-empty color it stores and returns that color.
C10_DefaultColor ==
    (last.op = "createCategory" /\ last.status = 201) =>
        LET body == last.input
            expected == IF "color" \in DOMAIN body /\ body.color # ""
                        THEN body.color ELSE "#3b82f6"
        IN /\ last.body.color = expected
           /\ getCategory(last.body.id) # NoBody
           /\ getCategory(last.body.id).color = expected

\* C10 witness: a category was created with the empty color.
C10_Witness ==
    /\ last.op = "createCategory" /\ last.status = 201
    /\ "color" \in DOMAIN last.input
    /\ last.input.color = ""
    /\ getCategory(last.body.id).color = "#3b82f6"

\* C11: a note created without tags has the empty tag sequence, and one created without
\* content the empty string, in the record createNote returns and as getNote and
\* listNotes read it back; and what is read back of a note's content and tags changes
\* only when an updateNote of that note that carries the field returns.
C11_CreateDefaults ==
    /\ []((last.op = "createNote" /\ last.status = 201) =>
            LET body == last.input
                id == last.body.id
                listed == getNotes(<<>>)
            IN /\ id \in NoteIds
               /\ "tags" \notin DOMAIN body =>
                     /\ last.body.tags = <<>>
                     /\ getNote(id).tags = <<>>
                     /\ \E i \in 1..Len(listed) : listed[i].id = id /\ listed[i].tags = <<>>
               /\ "content" \notin DOMAIN body =>
                     /\ last.body.content = <<>>
                     /\ getNote(id).content = <<>>
                     /\ \E i \in 1..Len(listed) :
                           listed[i].id = id /\ listed[i].content = <<>>)
    /\ [][\A id \in NoteIds \cap NoteIds' : \A f \in {"tags", "content"} :
            \A before \in {getNote(id)}, after \in {getNote(id)'} :
               after[f] # before[f] =>
                  \E p \in Procs : /\ UpdateNoteReturns(p)
                                   /\ req[p].id = id
                                   /\ f \in DOMAIN req[p].patch]_vars

\* C11 witness: the second note was created with neither tags nor content and reads
\* back with both empty.
C11_Witness ==
    /\ last.op = "createNote" /\ last.status = 201
    /\ DOMAIN last.input = {"title", "categoryId"}
    /\ Cardinality(notes) = 2
    /\ getNote(last.body.id).tags = <<>>
    /\ getNote(last.body.id).content = <<>>

\* C12: deleteCategory(id) returns true (DELETE answers 204) exactly when a category
\* with that id was stored when it was called, whether or not it had notes; else it
\* returns false (404).  Its first statement leaves the categories as they are.
C12_DeleteCategoryReturn ==
    [][\A p \in Procs :
          /\ (req[p] = Idle /\ req'[p].op = "deleteCategory") => categories' = categories
          /\ (req[p].op = "deleteCategory" /\ last'.op = "deleteCategory") =>
                \A id \in {req[p].id} :
                   /\ req'[p] = Idle
                   /\ last'.status = IF id \in CatIds THEN 204 ELSE 404
                   /\ id \notin CatIds']_vars

\* C12 witness: deleteCategory returned true for a category while no note was ever
\* created.
C12_Witness ==
    /\ last.op = "deleteCategory"
    /\ last.status = 204
    /\ nextNoteId = 1

\* The step leaves every category and every note as it was.
StoreUnchanged == categories' = categories /\ notes' = notes

\* C13: deleteNote and deleteCategory of an id that is not stored return false (404),
\* updateNote and updateCategory of an id that is not stored return not-found (404),
\* and none of the four changes a category or a note in any field.
C13_AbsentIdHarmless ==
    [][/\ \A id \in EnvSeed.noteDeletes :
             (deleteNote(id) /\ id \notin NoteIds) =>
                (last'.status = 404 /\ StoreUnchanged)
       /\ \A id \in EnvSeed.categoryDeletes :
             (deleteCategoryNotes(id) /\ id \notin CatIds) => StoreUnchanged
       /\ \A p \in Procs :
             (deleteCategoryRow(p) /\ req[p].id \notin CatIds) =>
                (last'.status = 404 /\ StoreUnchanged)
       /\ \A id \in EnvSeed.noteIds, body \in EnvSeed.notePatches :
             (updateNoteBegin(id, body) /\ id \notin NoteIds) =>
                (last'.status = 404 /\ last'.body = NoBody /\ req' = req /\ StoreUnchanged)
       /\ \A id \in EnvSeed.categoryIds, body \in EnvSeed.categoryPatches :
             (updateCategoryBegin(id, body) /\ id \notin CatIds) =>
                (last'.status = 404 /\ last'.body = NoBody /\ req' = req
                 /\ StoreUnchanged)]_vars

\* C13 witness: deleteCategory of an id without a category has returned false on a
\* store that holds categories and a note.
C13_Witness ==
    /\ last.op = "deleteCategory"
    /\ last.status = 404
    /\ last.input.id \notin CatIds
    /\ categories # {}
    /\ notes # {}

\* C14: deleteNote(id) returns true (204) exactly when a note with that id is stored,
\* else false (404); it removes that note and nothing else: every other note and every
\* category stays as it was, and getNote(id) afterwards is not found.
C14_DeleteNote ==
    [][\A id \in EnvText.noteDeletes : deleteNote(id) =>
          /\ last'.status = IF id \in NoteIds THEN 204 ELSE 404
          /\ notes' = {n \in notes : n.id # id}
          /\ categories' = categories
          /\ getNote(id)' = NoBody]_vars

\* C14 witness: note 2 was deleted and note 1 is still stored.
C14_Witness ==
    /\ last.op = "deleteNote"
    /\ last.status = 204
    /\ last.input.id = 2
    /\ NoteIds = {1}

\* What GET /api/notes/:id, DELETE /api/notes/:id and DELETE /api/categories/:id
\* answer: 404 exactly when the id is not stored at the request, else 200 (GET) or 204.
ReadAndDeleteStatus ==
    /\ \A id \in EnvHttp.noteGets :
          getNoteRoute(id) => last'.status = IF id \in NoteIds THEN 200 ELSE 404
    /\ \A id \in EnvHttp.noteDeletes :
          deleteNote(id) => last'.status = IF id \in NoteIds THEN 204 ELSE 404
    /\ \A p \in Procs :
          deleteCategoryRow(p) => last'.status = IF req[p].id \in CatIds THEN 204 ELSE 404

\* C15 as claimed: each of the five requests by id is answered 404 exactly when no
\* entity with that id is stored at the time of the request, and else 200 (GET, PUT) or
\* 204 (DELETE).  A PUT for a stored id is answered when its storage call returns.
C15_NotFoundOrSuccess ==
    [][/\ ReadAndDeleteStatus
       /\ \A id \in EnvHttp.noteIds, body \in EnvHttp.notePatches :
             updateNoteBegin(id, body) =>
                IF id \in NoteIds THEN req' # req ELSE last'.status = 404
       /\ \A p \in Procs : updateNoteEnd(p) => last'.status = 200
       /\ \A id \in EnvHttp.categoryIds, body \in EnvHttp.categoryPatches :
             updateCategoryBegin(id, body) =>
                IF id \in CatIds THEN req' # req ELSE last'.status = 404
       /\ \A p \in Procs : updateCategoryEnd(p) => last'.status = 200]_vars

\* C15 amended: GET and DELETE answer 404 exactly when the id is not stored, else 200
\* and 204.  A PUT whose body fails validation is answered 400 whether or not the id is
\* stored; with a valid body it is answered 404 exactly when the id is not stored when
\* the request is handled; else it is answered 200, or 500 when the write is refused:
\* a note patch whose categoryId names no stored category while the note is stored, a
\* category patch without a field.
C15_StatusByIdAndBody ==
    [][/\ ReadAndDeleteStatus
       /\ \A id \in EnvHttp.noteIds, body \in EnvHttp.notePatches :
             updateNoteBegin(id, body) =>
                IF "wrongType" \in DOMAIN body THEN last'.status = 400 /\ req' = req
                ELSE IF id \in NoteIds THEN req' # req /\ last' = last
                ELSE last'.status = 404 /\ req' = req
       /\ \A p \in Procs : updateNoteEnd(p) =>
             \A P \in {req[p].patch}, id \in {req[p].id} :
                last'.status = IF /\ id \in NoteIds
                                  /\ "categoryId" \in DOMAIN P
                                  /\ P.categoryId \notin CatIds
                               THEN 500 ELSE 200
       /\ \A id \in EnvHttp.categoryIds, body \in EnvHttp.categoryPatches :
             updateCategoryBegin(id, body) =>
                IF "wrongType" \in DOMAIN body THEN last'.status = 400 /\ req' = req
                ELSE IF id \in CatIds THEN req' # req /\ last' = last
                ELSE last'.status = 404 /\ req' = req
       /\ \A p \in Procs : updateCategoryEnd(p) =>
             last'.status = IF DOMAIN req[p].patch = {} THEN 500 ELSE 200]_vars

\* C15 witness: PUT /api/notes/0 with a valid body was answered 404 while another note
\* is stored.
C15_Witness ==
    /\ last.op = "updateNote"
    /\ last.status = 404
    /\ last.input.id \notin NoteIds
    /\ notes # {}

\* The body gives a value of a wrong type.
Malformed(body) == "wrongType" \in DOMAIN body /\ body.wrongType # {}

\* The step answers 400 and changes nothing else.
Answers400 == last'.status = 400 /\ StoreUnchanged /\ req' = req

C17_ForeignKeyRejected ==
    [][/\ \A body \in EnvHttp.noteBodies :
             (/\ createNote(body)
              /\ ~Malformed(body)
              /\ {"title", "categoryId"} \subseteq DOMAIN body
              /\ body.categoryId \notin CatIds) =>
                (last'.status = 500 /\ last'.body = NoBody /\ StoreUnchanged)
       /\ \A p \in Procs :
             (/\ updateNoteEnd(p)
              /\ req[p].id \in NoteIds
              /\ "categoryId" \in DOMAIN req[p].patch
              /\ req[p].patch.categoryId \notin CatIds) =>
                (last'.status = 500 /\ last'.body = NoBody /\ StoreUnchanged)]_vars

\* C17 witness: an updateNote of a stored note to a category that is not stored was
\* answered 500.
C17_Witness ==
    /\ last.op = "updateNote"
    /\ last.status = 500
    /\ last.input.id \in NoteIds
    /\ last.input.patch.categoryId \notin CatIds

\* Position of the note with this id in a list of notes (0 if it is not in it).
IndexOf(list, id) ==
    IF \E i \in 1..Len(list) : list[i].id = id
    THEN CHOOSE i \in 1..Len(list) : list[i].id = id
    ELSE 0

\* No note of the list stands before one with a greater updatedAt.
NewestFirst(list) ==
    \A i, j \in 1..Len(list) : i < j => list[i].updatedAt >= list[j].updatedAt

\* C18 as claimed: listNotes is ordered by updatedAt descending, and a note that
\* updateNote has just updated stands before every other note.
C18_JustUpdatedFirst ==
    /\ [](NewestFirst(getNotes(<<>>)) /\ NewestFirst(getNotes([categoryId |-> 1])))
    /\ [][\A p \in Procs : (UpdateNoteReturns(p) /\ req[p].id \in NoteIds) =>
             \A id \in {req[p].id} : IndexOf(getNotes(<<>>)', id) = 1]_vars

\* C18 amended: listNotes is ordered by updatedAt descending, and a note that updateNote
\* has just updated stands before every note whose updatedAt, kept in whole seconds, is
\* smaller than its own; a note stamped within the same second can stand before it.
C18_LaterSecondFirst ==
    /\ [](NewestFirst(getNotes(<<>>)) /\ NewestFirst(getNotes([categoryId |-> 1])))
    /\ [][\A p \in Procs : (UpdateNoteReturns(p) /\ req[p].id \in NoteIds) =>
             \A id \in {req[p].id} : \A list \in {getNotes(<<>>)'} :
                /\ IndexOf(list, id) > 0
                /\ \A j \in 1..Len(list) :
                      list[j].updatedAt < list[IndexOf(list, id)].updatedAt =>
                         IndexOf(list, id) < j]_vars

\* C18 witness: the note created first was updated in a later second than the other
\* note was stamped, and is listed first.
C18_Witness ==
    /\ last.op = "updateNote" /\ last.status = 200
    /\ last.input.id = 1
    /\ Len(getNotes(<<>>)) = 2
    /\ getNotes(<<>>)[1].id = 1
    /\ getNotes(<<>>)[1].updatedAt > getNotes(<<>>)[2].updatedAt

\* C19: listCategories returns each stored category once and nothing else, a category
\* never before one with a smaller createdAt, and the empty list when no category is
\* stored.
C19_ListCategories ==
    LET list == getCategories IN
    /\ Len(list) = Cardinality(categories)
    /\ {list[i] : i \in 1..Len(list)} = {CategoryOfRow(r) : r \in categories}
    /\ \A i, j \in 1..Len(list) : i < j => list[i].createdAt <= list[j].createdAt
    /\ categories = {} => list = <<>>

\* C19 witness: a category created in a later second than the seeded ones is listed
\* after them, one of which has been deleted.
C19_Witness ==
    LET list == getCategories IN
    /\ Len(list) = 4
    /\ list[4].id = 5
    /\ list[3].createdAt < list[4].createdAt

\* C20: every stored category has a non-empty name, in every state reached through
\* POST /api/categories and PUT /api/categories/:id.
C20_NonEmptyNames == \A c \in categories : c.name # ""

\* No two rows of a table have the same id.
UniqueIds(rows) == \A r, q \in rows : r.id = q.id => r = q

\* Every row of the first table has a row with its id in the second.
IdsKept(rows, rowsAfter) == {r.id : r \in rows} \subseteq {r.id : r \in rowsAfter}

\* C21: ids are unique within each table; createCategory and createNote give the new
\* entity an id that no stored entity of the table has; and updateCategory and
\* updateNote, also when the PUT body carries an id field, leave every stored entity
\* under its id and return the record under the id they were called with.
C21_IdsUniqueImmutable ==
    /\ [](UniqueIds(categories) /\ UniqueIds(notes))
    /\ [][/\ \A body \in EnvHttp.categoryBodies :
                (createCategory(body) /\ last'.status = 201) =>
                   /\ last'.body.id \notin CatIds
                   /\ CatIds' = CatIds \cup {last'.body.id}
          /\ \A body \in EnvHttp.noteBodies :
                (createNote(body) /\ last'.status = 201) =>
                   /\ last'.body.id \notin NoteIds
                   /\ NoteIds' = NoteIds \cup {last'.body.id}
          /\ \A p \in Procs : updateCategoryEnd(p) =>
                /\ CatIds' = CatIds /\ NoteIds' = NoteIds
                /\ Cardinality(categories') = Cardinality(categories)
                /\ last'.status = 200 => last'.body.id = req[p].id
          /\ \A p \in Procs : updateNoteEnd(p) =>
                /\ CatIds' = CatIds /\ NoteIds' = NoteIds
                /\ Cardinality(notes') = Cardinality(notes)
                /\ last'.status = 200 => last'.body.id = req[p].id]_vars

\* C21 witness: a PUT whose body carried an id has updated a stored note, which is
\* still stored under its own id.
C21_Witness ==
    /\ last.op = "updateNote" /\ last.status = 200
    /\ last.input.id = 1
    /\ last.input.patch = [content |-> <<"b">>]
    /\ 1 \in NoteIds
    /\ getNote(1).content = <<"b">>

\* C22: createNote gives the note one instant as createdAt and as updatedAt, in the
\* returned record and in the store; no step changes the createdAt of a note or of a
\* category that stays stored; and createdAt <= updatedAt for every stored note.
C22_CreatedBeforeUpdated ==
    /\ [](\A id \in NoteIds : getNote(id).createdAt <= getNote(id).updatedAt)
    /\ [][/\ \A body \in EnvClock.noteBodies :
                (createNote(body) /\ last'.status = 201) =>
                   \A id \in {last'.body.id} :
                      /\ last'.body.createdAt = last'.body.updatedAt
                      /\ getNote(id)'.createdAt = getNote(id)'.updatedAt
          /\ \A id \in NoteIds \cap NoteIds' :
                getNote(id)'.createdAt = getNote(id).createdAt
          /\ \A id \in CatIds \cap CatIds' :
                getCategory(id)'.createdAt = getCategory(id).createdAt]_vars

\* C22 witness: of two notes created in the first second, one was updated in a later
\* second and has kept its createdAt.
C22_Witness ==
    /\ last.op = "updateNote" /\ last.status = 200
    /\ NoteIds = {1, 2}
    /\ getNote(1).createdAt = 0 /\ getNote(1).updatedAt = 1000
    /\ getNote(2).createdAt = getNote(2).updatedAt

\* C23: updateCategory on a stored id, for every partial input and also for one without
\* a field, returns the prior record with the given fields replaced and the others kept;
\* the stored record then equals the returned one; and no note and no other category
\* is changed.
C23_UpdateCategoryMerge ==
    [][\A p \in Procs : (updateCategoryEnd(p) /\ req[p].id \in CatIds) =>
          \A P \in {req[p].patch}, id \in {req[p].id}, prior \in {getCategory(req[p].id)} :
             /\ last'.status = 200
             /\ last'.body = [f \in DOMAIN prior |-> IF f \in DOMAIN P THEN P[f] ELSE prior[f]]
             /\ getCategory(id)' = last'.body
             /\ notes' = notes
             /\ {c \in categories' : c.id # id} = {c \in categories : c.id # id}]_vars

\* C24: every interleaving of requests at the awaits of updateNote and updateCategory
\* gives the responses of some serial execution of the same requests.  In a serial
\* execution, of two updateNote of one note that both return a record, the one that
\* runs second returns the values the first one wrote (no request here sets a title
\* or a categoryId back); so of two such responses that follow each other, one
\* carries the values of both patches.
C24_SerialResponses ==
    [][\A p \in Procs :
          (/\ UpdateNoteReturns(p)
           /\ last.op = "updateNote" /\ last.status = 200
           /\ last.input.id = req[p].id) =>
             \A A \in {last}, B \in {last'} :
                \/ \A f \in DOMAIN A.input.patch : B.body[f] = A.input.patch[f]
                \/ \A f \in DOMAIN B.input.patch : A.body[f] = B.input.patch[f]]_vars

\* C29: when an updateNote that ran interleaved with a deleteNote of its note, or with a
\* deleteCategory of the note's category, returns a record (PUT answers 200), a note
\* with that id is stored and has the returned title, content, categoryId and tags;
\* success is never reported for a note that is deleted.
C29_SuccessOnlyIfStored ==
    [][\A p \in Procs : UpdateNoteReturns(p) =>
          \A id \in {req[p].id}, returned \in {last'.body} :
             /\ id \in NoteIds'
             /\ \A f \in NoteKeys : getNote(id)'[f] = returned[f]]_vars

\* An instant cut to its whole second.
WholeSecond(ms) == (ms \div 1000) * 1000

\* A returned record with its instants cut to whole seconds.
ToWholeSeconds(rec) ==
    [f \in DOMAIN rec |-> IF f \in {"createdAt", "updatedAt"} THEN WholeSecond(rec[f])
                          ELSE rec[f]]

\* C25 as claimed: the record that createCategory, createNote, updateCategory or
\* updateNote has just returned equals, in every field, what getCategory or getNote
\* then returns for its id.
C25_ReadYourWrites ==
    /\ (last.op \in {"createNote", "updateNote"} /\ last.status \in {200, 201}) =>
          getNote(last.body.id) = last.body
    /\ (last.op \in {"createCategory", "updateCategory"} /\ last.status \in {200, 201}) =>
          getCategory(last.body.id) = last.body

\* C25 amended: the record createCategory or createNote returns equals what getCategory
\* or getNote then returns, except that the returned createdAt and updatedAt are the
\* clock's milliseconds and the ones read back are cut to the whole second; the same
\* for updateCategory and updateNote when the entity is stored at the write as the call
\* read it.
C25_ReadBackToSecond ==
    [][/\ \A body \in EnvClock.noteBodies :
             (createNote(body) /\ last'.status = 201) =>
                \A id \in {last'.body.id} : getNote(id)' = ToWholeSeconds(last'.body)
       /\ \A body \in EnvClock.categoryBodies :
             (createCategory(body) /\ last'.status = 201) =>
                \A id \in {last'.body.id} : getCategory(id)' = ToWholeSeconds(last'.body)
       /\ \A p \in Procs :
             (updateNoteEnd(p) /\ last'.status = 200
                 /\ getNote(req[p].id) = req[p].existing) =>
                \A id \in {req[p].id} : getNote(id)' = ToWholeSeconds(last'.body)
       /\ \A p \in Procs :
             (updateCategoryEnd(p) /\ last'.status = 200
                 /\ getCategory(req[p].id) = req[p].existing) =>
                \A id \in {req[p].id} : getCategory(id)' = ToWholeSeconds(last'.body)]_vars

\* C25 witness: a note created half a second into a second was returned with that
\* instant and reads back with the whole second.
C25_Witness ==
    /\ last.op = "createNote" /\ last.status = 201
    /\ last.body.createdAt % 1000 = 500
    /\ getNote(last.body.id).createdAt = last.body.createdAt - 500
    /\ getNote(last.body.id).title = last.body.title

\* C27: every category selection and every new-note action of the Notepad page sets
\* selectedNoteId to null, so that right after it the editor has no current note;
\* selecting a note sets selectedNoteId and leaves selectedCategoryId and searchQuery
\* as they were.
C27_ViewStateReset ==
    [][/\ \A id \in EnvNotepad.categoryClicks :
             CategoryClick(id) => selectedNoteId' = None /\ currentNote' = NoBody
       /\ (NewNoteClick /\ (selectedCategoryId # None \/ categoriesQuery # <<>>)) =>
             selectedNoteId' = None /\ currentNote' = NoBody
       /\ \A id \in EnvNotepad.noteClicks :
             NoteClick(id) =>
                /\ selectedNoteId' = id
                /\ UNCHANGED <<selectedCategoryId, searchQuery>>]_vars

\* The second category is selected with no note selected and a search typed, after
\* auto-save created a note in the first category and the page selected it.
C27_Witness ==
    /\ selectedCategoryId = 2
    /\ selectedNoteId = None
    /\ searchQuery = <<"a">>
    /\ createNoteMutation = {}
    /\ \E n \in notes : n.categoryId = 1

\* C26: when the delete of a category has succeeded and onSuccess has run, the
\* selection is not the deleted category if it was the selected one, and is what it
\* was if another category was selected.
C26_SelectionAfterDelete ==
    [][\A id \in EnvSidebar.categoryDeletes :
          DeleteCategorySuccess(id) =>
             /\ (selectedCategoryId = id) => selectedCategoryId' # id
             /\ (selectedCategoryId # id) => selectedCategoryId' = selectedCategoryId]_vars

\* C28: in one editing session, opened on a category with no note selected, the page
\* sends at most one POST /api/notes (every POST here creates a note, so at most one
\* note id is handed out); and once a create has succeeded and onNoteCreated has
\* selected the note, an auto-save that sends a request sends a PUT of that note.
C28_OneNotePerSession ==
    /\ [](nextNoteId <= 2)
    /\ [][(TimerFires /\ selectedNoteId # None /\ server' # server) =>
             /\ nextNoteId' = nextNoteId
             /\ \E p \in Procs : req'[p].op = "updateNote" /\ req'[p].id = selectedNoteId]_vars
====
